---- MODULE Spec2Model ----
(***************************************************************************)
(* A model of atomic_reactor/plugins/resolve_composes.py: one run of       *)
(* ResolveComposesPlugin (construction, inheritance, configuration,        *)
(* compose requests, the wait/renew loop, cancellation on timeout, the     *)
(* signing-intent resolution and the result), against an ODCS service      *)
(* whose answers are nondeterministic.                                     *)
(*                                                                         *)
(* Python dicts are records: the DOMAIN of a record is the set of keys the *)
(* dict holds, so "k in d" is k \in DOMAIN d and the empty dict (and None, *)
(* which the code treats alike through "not d" and "d or {}") is the empty *)
(* record <<>>.  Lists and tuples are sequences.                           *)
(***************************************************************************)
EXTENDS Integers, Sequences, FiniteSets, TLC

VARIABLES
    cfg,                    \* the inputs of the run: parameters, workflow, configuration
    pc,                     \* the position of the run
    all_compose_ids,        \* self.all_compose_ids
    new_compose_ids,        \* self.new_compose_ids
    parent_compose_ids,     \* self.parent_compose_ids
    repourls,               \* self.repourls
    composes_info,          \* self.composes_info
    parent_signing_intent,  \* self._parent_signing_intent
    compose_config,         \* self.compose_config
    yum_repourls,           \* self.yum_repourls (a defaultdict(list))
    result,                 \* what run() returned
    requests,               \* request_compose_if_needed: the rendered requests
    idx,                    \* the position of the loop the run is in
    renewal,                \* wait_for_composes: the renewal under way
    ids_before_wait,        \* the ids tracked when wait_for_composes began
    next_id,                \* the compose service: the id its next compose gets
    calls,                  \* the calls made to the compose service, in order
    statuses,               \* what get_compose_status answered, per compose id
    checks                  \* the last _needs_renewal decision

vars == <<cfg, pc, all_compose_ids, new_compose_ids, parent_compose_ids, repourls,
          composes_info, parent_signing_intent, compose_config, yum_repourls, result,
          requests, idx, renewal, ids_before_wait, next_id, calls, statuses, checks>>

(***************************************************************************)
(* Python helpers                                                          *)
(***************************************************************************)
NONE == "None"

MINIMUM_TIME_TO_EXPIRE == 7200

\* datetime.utcnow(), in seconds
utcnow == 0

EmptyDict == <<>>

Get(d, k, default) == IF k \in DOMAIN d THEN d[k] ELSE default

Range(s) == {s[i] : i \in 1..Len(s)}

Truthy(d) == DOMAIN d # {}

\* the lists a set can be turned into by list(set(...)): its elements once
\* each, in an order the language does not fix
ListsOf(S) == {s \in [1..Cardinality(S) -> S] : Range(s) = S}

RECURSIVE SelectSeqIn(_, _)
SelectSeqIn(s, S) ==
    IF s = <<>> THEN <<>>
    ELSE (IF Head(s) \in S THEN <<Head(s)>> ELSE <<>>) \o SelectSeqIn(Tail(s), S)

(***************************************************************************)
(* The signing-intent catalog (workflow.conf.odcs_config)                  *)
(***************************************************************************)
signing_intents ==
    << [name |-> "unsigned", keys |-> <<>>,           restrictiveness |-> 0],
       [name |-> "beta",     keys |-> <<"R", "B">>,   restrictiveness |-> 1],
       [name |-> "release",  keys |-> <<"R">>,        restrictiveness |-> 2] >>

default_signing_intent == "release"

IntentNames == {signing_intents[i].name : i \in 1..Len(signing_intents)}

has_signing_intent_name(name) == name \in IntentNames

get_signing_intent_by_name(name) ==
    CHOOSE e \in Range(signing_intents) : e.name = name

\* the entries the keys select: searched from the most restrictive entry down
keys_match(entry, keys) ==
    \/ keys # {} /\ keys \subseteq Range(entry.keys)
    \/ keys = Range(entry.keys)

has_signing_intent_keys(sigkeys) ==
    \E e \in Range(signing_intents) : keys_match(e, Range(sigkeys))

get_signing_intent_by_keys(sigkeys) ==
    LET hits == {i \in 1..Len(signing_intents) : keys_match(signing_intents[i], Range(sigkeys))}
    IN  signing_intents[CHOOSE i \in hits : \A j \in hits : j <= i]

\* min(seq, key=lambda x: x['restrictiveness']): the first of the least
RECURSIVE MinByRestrictiveness(_)
MinByRestrictiveness(s) ==
    IF Len(s) = 1 THEN s[1]
    ELSE LET m == MinByRestrictiveness(Tail(s))
         IN  IF s[1].restrictiveness <= m.restrictiveness THEN s[1] ELSE m

(***************************************************************************)
(* ComposeConfig                                                           *)
(***************************************************************************)
UNPUBLISHED_REPOS == "include_unpublished_pulp_repos"

IGNORE_ABSENT_REPOS == "ignore_absent_pulp_repos"

\* the architectures the model knows, in sorted() order
ArchOrder == <<"aarch64", "ppc64le", "x86_64">>

Sorted(S) == SelectSeqIn(ArchOrder, S)

\* modular_koji_tags / module_resolve_tags are True or a list of tags; a value
\* is [is_true |-> BOOLEAN, tags |-> the list], an absent key is None
NoTags == [is_true |-> FALSE, tags |-> <<>>]

\* ComposeConfig.__init__ raises ValueError
ComposeConfigRaises(data, koji_tag) ==
    \/ Get(data, "modular_koji_tags", NoTags).is_true /\ koji_tag = NONE
    \/ Get(data, "module_resolve_tags", NoTags).is_true /\ koji_tag = NONE
    \/ ~has_signing_intent_name(Get(data, "signing_intent", default_signing_intent))

ExpandTags(value, koji_tag) == IF value.is_true THEN <<koji_tag>> ELSE value.tags

\* a dict arch -> content sets is a sequence of [arch, content] in insertion order
PulpIndex(pulp, arch) == {i \in 1..Len(pulp) : pulp[i].arch = arch}

RECURSIVE PulpUnion(_, _)
PulpUnion(pulp, build_only) ==
    IF build_only = <<>> THEN pulp
    ELSE LET e == Head(build_only)
             at == PulpIndex(pulp, e.arch)
             merged ==
                 IF at = {} THEN Append(pulp, [arch |-> e.arch, content |-> e.content])
                 ELSE [i \in 1..Len(pulp) |->
                          IF i \in at
                          THEN [arch |-> e.arch, content |-> e.content \cup pulp[i].content]
                          ELSE pulp[i]]
         IN  PulpUnion(merged, Tail(build_only))

PulpOf(data, pulp_data, arches) ==
    IF Get(data, "pulp_repos", FALSE)
    THEN PulpUnion(SelectSeq(pulp_data, LAMBDA e : e.arch \in Range(arches)),
                   Get(data, "build_only_content_sets", <<>>))
    ELSE <<>>

FlagsOf(data) ==
    IF Get(data, "pulp_repos", FALSE)
    THEN (IF Get(data, UNPUBLISHED_REPOS, FALSE) THEN <<UNPUBLISHED_REPOS>> ELSE <<>>)
         \o (IF Get(data, IGNORE_ABSENT_REPOS, FALSE) THEN <<IGNORE_ABSENT_REPOS>> ELSE <<>>)
    ELSE <<>>

MultilibArchesOf(data, arches) ==
    SelectSeq(Get(data, "multilib_arches", <<>>), LAMBDA a : a \in Range(arches))

OriginalSigningIntentName(data) == Get(data, "signing_intent", default_signing_intent)

set_signing_intent_and_name(cc, name) ==
    [cc EXCEPT !.signing_intent = get_signing_intent_by_name(name),
               !.original_signing_intent_name = name]

ComposeConfig(data, pulp_data, koji_tag, arches) ==
    [ use_packages        |-> "packages" \in DOMAIN data,
      packages            |-> Get(data, "packages", <<>>),
      modules             |-> Get(data, "modules", <<>>),
      pulp                |-> PulpOf(data, pulp_data, arches),
      arches              |-> arches,
      multilib_arches     |-> MultilibArchesOf(data, arches),
      multilib_method     |-> IF MultilibArchesOf(data, arches) # <<>>
                              THEN Get(data, "multilib_method", NONE) ELSE NONE,
      modular_tags        |-> ExpandTags(Get(data, "modular_koji_tags", NoTags), koji_tag),
      module_resolve_tags |-> ExpandTags(Get(data, "module_resolve_tags", NoTags), koji_tag),
      koji_tag            |-> koji_tag,
      flags               |-> FlagsOf(data),
      signing_intent      |-> get_signing_intent_by_name(OriginalSigningIntentName(data)),
      original_signing_intent_name |-> OriginalSigningIntentName(data) ]

set_signing_intent(cc, name) ==
    [cc EXCEPT !.signing_intent = get_signing_intent_by_name(name)]

has_signing_intent_changed(cc) ==
    cc.signing_intent.name # cc.original_signing_intent_name

validate_for_request_raises(cc) ==
    \/ ~cc.use_packages /\ cc.modules = <<>> /\ cc.pulp = <<>> /\ cc.modular_tags = <<>>
    \/ cc.packages # <<>> /\ cc.koji_tag = NONE

Multilib(cc) ==
    IF cc.multilib_arches # <<>>
    THEN [multilib_arches |-> cc.multilib_arches, multilib_method |-> cc.multilib_method]
    ELSE EmptyDict

Arches(cc) == IF cc.arches # <<>> THEN [arches |-> cc.arches] ELSE EmptyDict

render_packages_request(cc) ==
    [source_type |-> "tag", source |-> cc.koji_tag, packages |-> cc.packages,
     sigkeys |-> cc.signing_intent.keys] @@ Arches(cc) @@ Multilib(cc)

render_modular_tags_request(cc) ==
    [source_type |-> "tag", source |-> cc.koji_tag, sigkeys |-> cc.signing_intent.keys,
     modular_koji_tags |-> cc.modular_tags] @@ Arches(cc) @@ Multilib(cc)

\* ModuleSpec.from_str(m).to_str(include_profile=False): a module is
\* [spec |-> "name:stream", profile |-> a profile or NONE]
NoProfile(m) == m.spec

render_modules_request(cc) ==
    [source_type |-> "module",
     source |-> [i \in 1..Len(cc.modules) |-> NoProfile(cc.modules[i])],
     sigkeys |-> cc.signing_intent.keys]
    @@ (IF cc.module_resolve_tags # <<>>
        THEN [modular_koji_tags |-> cc.module_resolve_tags] ELSE EmptyDict)
    @@ Arches(cc)

render_pulp_request_signed(cc, i) ==
    [source_type |-> "pulp", source |-> cc.pulp[i].content,
     sigkeys |-> cc.signing_intent.keys, flags |-> cc.flags, arches |-> <<cc.pulp[i].arch>>]
    @@ (IF cc.pulp[i].arch \in Range(cc.multilib_arches)
        THEN [multilib_arches |-> <<cc.pulp[i].arch>>, multilib_method |-> cc.multilib_method]
        ELSE EmptyDict)

render_pulp_request(cc, i) ==
    [source_type |-> "pulp", source |-> cc.pulp[i].content, sigkeys |-> <<>>,
     flags |-> cc.flags, arches |-> <<cc.pulp[i].arch>>]
    @@ (IF cc.pulp[i].arch \in Range(cc.multilib_arches)
        THEN [multilib_arches |-> <<cc.pulp[i].arch>>, multilib_method |-> cc.multilib_method]
        ELSE EmptyDict)

render_requests_modules_first(cc) ==
    (IF cc.modules # <<>> THEN <<render_modules_request(cc)>> ELSE <<>>)
    \o (IF cc.use_packages THEN <<render_packages_request(cc)>> ELSE <<>>)
    \o (IF cc.modular_tags # <<>> THEN <<render_modular_tags_request(cc)>> ELSE <<>>)
    \o [i \in 1..Len(cc.pulp) |-> render_pulp_request(cc, i)]

render_requests(cc) ==
    (IF cc.use_packages THEN <<render_packages_request(cc)>> ELSE <<>>)
    \o (IF cc.modules # <<>> THEN <<render_modules_request(cc)>> ELSE <<>>)
    \o (IF cc.modular_tags # <<>> THEN <<render_modular_tags_request(cc)>> ELSE <<>>)
    \o [i \in 1..Len(cc.pulp) |-> render_pulp_request(cc, i)]

(***************************************************************************)
(* The result                                                              *)
(***************************************************************************)
MODULE_SOURCE_TYPE == 2

\* d[k].extend(s) on a defaultdict(list)
DictExtend(d, k, s) ==
    [a \in DOMAIN d \cup {k} |-> IF a \in DOMAIN d
                                 THEN (IF a = k THEN d[a] \o s ELSE d[a])
                                 ELSE s]

RECURSIVE DictExtendAll(_, _, _)
DictExtendAll(d, keys, s) ==
    IF keys = <<>> THEN d ELSE DictExtendAll(DictExtend(d, Head(keys), s), Tail(keys), s)

RECURSIVE ForwardEach(_, _)
ForwardEach(yum, infos) ==
    IF infos = <<>> THEN yum
    ELSE LET info == Head(infos)
             repofile == <<info.result_repofile>>
         IN  ForwardEach(IF "arches" \notin DOMAIN info
                         THEN DictExtend(yum, "noarch", repofile)
                         ELSE DictExtendAll(yum, info.arches, repofile),
                         Tail(infos))

forward_composes_keeping_noarch(yum, infos, urls) ==
    LET merged == DictExtend(ForwardEach(yum, infos), "noarch", urls)
    IN  [a \in DOMAIN merged |->
            IF a = "noarch" THEN merged[a] ELSE merged[a] \o merged["noarch"]]

forward_composes(yum, infos, urls) ==
    LET merged == DictExtend(ForwardEach(yum, infos), "noarch", urls)
    IN  [a \in DOMAIN merged \ {"noarch"} |-> merged[a] \o merged["noarch"]]

has_complete_repos_any_arch(platform, urls, infos) ==
    \/ urls # <<>>
    \/ \E i \in 1..Len(infos) : infos[i].source_type # MODULE_SOURCE_TYPE

has_complete_repos(platform, urls, infos) ==
    \/ urls # <<>>
    \/ \E i \in 1..Len(infos) :
          /\ ("arches" \notin DOMAIN infos[i]) \/ (platform \in Range(infos[i].arches))
          /\ infos[i].source_type # MODULE_SOURCE_TYPE

make_result(cc, infos, yum, urls, platforms) ==
    [ composes                  |-> infos,
      yum_repourls              |-> yum,
      include_koji_repo         |-> [p \in platforms |-> ~has_complete_repos(p, urls, infos)],
      signing_intent            |-> IF Truthy(cc) THEN cc.signing_intent.name ELSE NONE,
      signing_intent_overridden |-> IF Truthy(cc) THEN has_signing_intent_changed(cc)
                                    ELSE FALSE ]

NoResult == <<>>

(***************************************************************************)
(* The inputs of a run                                                     *)
(***************************************************************************)
BuildTag == "build-tag"

\* the parent build's record, as the koji_parent plugin left it: nothing, a
\* result without a build, or a build that may hold compose ids, a signing
\* intent and repo URLs
ParentBuilds ==
    { [nvr |-> "parent-1-1"],
      [nvr |-> "parent-1-1", compose_ids |-> <<3>>],
      [nvr |-> "parent-1-1", signing_intent |-> "beta"],
      [nvr |-> "parent-1-1", signing_intent |-> "unsigned", yum_repourls |-> <<"parent.repo">>],
      [nvr |-> "parent-1-1", compose_ids |-> <<3>>, signing_intent |-> "beta",
       yum_repourls |-> <<"parent.repo">>],
      [nvr |-> "parent-1-1", compose_ids |-> <<1, 3>>, signing_intent |-> "unsigned"] }

PluginResults ==
    {EmptyDict, [build |-> EmptyDict]} \cup {[build |-> b] : b \in ParentBuilds}

\* the compose section of container.yaml, without its inherit key
ComposeData ==
    { EmptyDict,
      [packages |-> <<"pkg">>],
      [packages |-> <<>>],
      [modules |-> <<[spec |-> "mod:1", profile |-> "dev"]>>, signing_intent |-> "beta"],
      [packages |-> <<"pkg">>, modules |-> <<[spec |-> "mod:1", profile |-> NONE]>>,
       signing_intent |-> "unsigned"],
      [signing_intent |-> "release"] }

\* what the compose service may report of a compose: its signing keys, its
\* state and time to expire (lifetimes just above and at the renewal
\* threshold, and a removed compose), and what it is made of
\* an unknown key "X" is one no catalog entry holds
SigkeyChoices == {<<>>, <<"R">>, <<"B">>, <<"B", "R">>, <<"X">>}

\* a compose that is done and has more than the minimum time left
LongLived == [state_name |-> "done", time_to_expire |-> utcnow + MINIMUM_TIME_TO_EXPIRE + 1]

Lifetimes ==
    { LongLived,
      [state_name |-> "done", time_to_expire |-> utcnow + MINIMUM_TIME_TO_EXPIRE],
      [state_name |-> "removed", time_to_expire |-> utcnow + MINIMUM_TIME_TO_EXPIRE + 1] }

InfoShapes ==
    { [source_type |-> 1],
      [source_type |-> MODULE_SOURCE_TYPE, arches |-> <<"x86_64">>] }

\* composes of every key set and lifetime, each a module compose for one arch
FullService ==
    [sigkeys |-> SigkeyChoices, lifetimes |-> Lifetimes,
     shapes |-> {[source_type |-> MODULE_SOURCE_TYPE, arches |-> <<"x86_64">>]}]

\* composes of one key set, of every lifetime
PlainService ==
    [sigkeys |-> {<<"R">>}, lifetimes |-> Lifetimes, shapes |-> {[source_type |-> 1]}]

\* composes of every source type, with and without declared arches
MixedShapes ==
    InfoShapes \cup { [source_type |-> MODULE_SOURCE_TYPE],
                      [source_type |-> 1, arches |-> <<"ppc64le">>],
                      [source_type |-> 1, arches |-> <<"x86_64", "ppc64le">>] }

\* composes of several key sets and shapes, none of them to renew
SettledService ==
    [sigkeys |-> {<<>>, <<"R">>, <<"B">>}, lifetimes |-> {LongLived}, shapes |-> MixedShapes]

ConfigsWith(service) ==
    { [ odcs_config       |-> odcs,
        compose           |-> data,
        inherit           |-> inherit,
        scratch           |-> kind = "scratch",
        isolated          |-> kind = "isolated",
        base_from_scratch |-> from_scratch,
        plugin_result     |-> parent,
        signing_intent    |-> intent,
        compose_ids       |-> ids,
        repourls          |-> urls,
        koji_target       |-> target,
        platforms         |-> {"x86_64", "ppc64le"},
        pulp_data         |-> <<>>,
        minimum_time_to_expire |-> MINIMUM_TIME_TO_EXPIRE,
        service           |-> service ] :
        odcs \in BOOLEAN, data \in ComposeData, inherit \in BOOLEAN,
        kind \in {"normal", "scratch", "isolated"}, from_scratch \in BOOLEAN,
        parent \in PluginResults, intent \in {NONE, "release", "unsigned"},
        ids \in {<<>>, <<1>>, <<2, 1>>}, urls \in {<<>>, <<"user.repo">>},
        target \in {NONE, "target"} }

\* the ids a run of this configuration can come to track at once
TrackedBound(c) ==
    Cardinality(Range(c.compose_ids)
                \cup (IF c.inherit /\ ~c.scratch /\ ~c.isolated /\ ~c.base_from_scratch
                      THEN Range(Get(Get(c.plugin_result, "build", EmptyDict),
                                     "compose_ids", <<>>))
                      ELSE {}))
    + (IF c.compose_ids = <<>> THEN Cardinality(DOMAIN c.compose \cap {"packages", "modules"})
       ELSE 0)

MaxTracked == 2

RichParent ==
    [build |-> [nvr |-> "parent-1-1", compose_ids |-> <<3>>, signing_intent |-> "beta",
                yum_repourls |-> <<"parent.repo">>]]

\* every combination of the inputs a run reads, for the runs that track at most
\* one compose.  Left out are the combinations that differ only in an input
\* the run does not read: the build kind without an inheritance request, the
\* parent's record under a scratch base (one record stands for all), the
\* configuration without a compose backend, and everything but the two
\* parameters when the constructor rejects them
Broad ==
    { c \in ConfigsWith(FullService) :
        /\ TrackedBound(c) <= 1 \/ (c.signing_intent # NONE /\ c.compose_ids # <<>>)
        /\ ~c.inherit => ~c.scratch /\ ~c.isolated
        /\ c.base_from_scratch => c.plugin_result = RichParent
        /\ "packages" \notin DOMAIN c.compose => c.koji_target # NONE
        /\ (c.signing_intent # NONE /\ c.compose_ids # <<>>) =>
              /\ c.odcs_config /\ ~c.base_from_scratch /\ ~c.scratch /\ ~c.isolated
              /\ c.compose = EmptyDict /\ c.plugin_result \in {EmptyDict, RichParent}
              /\ c.repourls = <<>>
        /\ ~c.odcs_config =>
              /\ c.compose = EmptyDict /\ c.signing_intent = NONE }

\* the runs that track several composes: explicit, inherited and requested
\* ids together, with the other inputs fixed and a service of less variety
Several(service, tracked) ==
    { c \in ConfigsWith(service) :
        /\ TrackedBound(c) <= tracked
        /\ c.odcs_config /\ ~c.scratch /\ ~c.isolated /\ ~c.base_from_scratch
        /\ c.signing_intent = NONE /\ c.repourls = <<>> /\ c.koji_target # NONE
        /\ Truthy(c.plugin_result) => "compose_ids" \in DOMAIN Get(c.plugin_result, "build", EmptyDict)
        /\ c.compose \in {d \in ComposeData : d = EmptyDict \/ "packages" \in DOMAIN d} }

Deep == Several(PlainService, MaxTracked)

\* two composes of different keys in one run
Mixed == Several(SettledService, 2)

Configs == Broad \cup Deep \cup Mixed

Init ==
    /\ cfg \in Configs
    /\ pc = "new"
    /\ all_compose_ids = <<>>
    /\ new_compose_ids = <<>>
    /\ parent_compose_ids = <<>>
    /\ repourls = <<>>
    /\ composes_info = <<>>
    /\ parent_signing_intent = EmptyDict
    /\ compose_config = EmptyDict
    /\ yum_repourls = EmptyDict
    /\ result = NoResult
    /\ requests = <<>>
    /\ idx = 0
    /\ renewal = EmptyDict
    /\ ids_before_wait = <<>>
    /\ next_id = 10
    /\ calls = <<>>
    /\ statuses = EmptyDict
    /\ checks = EmptyDict

plugin_state == <<all_compose_ids, new_compose_ids, parent_compose_ids, repourls,
                  composes_info, parent_signing_intent, compose_config, yum_repourls, result>>

loop_state == <<requests, idx, renewal, ids_before_wait>>

service_state == <<next_id, calls, statuses, checks>>

(***************************************************************************)
(* ResolveComposesPlugin.__init__                                          *)
(***************************************************************************)
InitAcceptsAll(c) == FALSE

InitRaises(c) == c.signing_intent # NONE /\ c.compose_ids # <<>>

Construct ==
    /\ pc = "new"
    /\ IF InitRaises(cfg)
       THEN /\ pc' = "ValueError"
            /\ UNCHANGED <<all_compose_ids, repourls>>
       ELSE /\ pc' = "run"
            /\ all_compose_ids' = cfg.compose_ids
            /\ repourls' = cfg.repourls
    /\ UNCHANGED <<cfg, new_compose_ids, parent_compose_ids, composes_info,
                   parent_signing_intent, compose_config, yum_repourls, result,
                   loop_state, service_state>>

(***************************************************************************)
(* run(): inheritance                                                      *)
(***************************************************************************)
allow_inheritance_when_requested(c) == c.inherit

allow_inheritance(c) == c.inherit /\ ~(c.scratch \/ c.isolated)

\* plugin_result.get(BASE_IMAGE_KOJI_BUILD)
ParentBuild(c) == Get(c.plugin_result, "build", EmptyDict)

ReadsParentBuildOnAnyBase(c) == Truthy(c.plugin_result) /\ Truthy(ParentBuild(c))

\* adjust_for_inherit and adjust_signing_intent_from_parent read the parent
\* build only past these early returns
ReadsParentBuild(c) ==
    ~c.base_from_scratch /\ Truthy(c.plugin_result) /\ Truthy(ParentBuild(c))

\* the ids adjust_for_inherit merges and the set it merges them into
InheritedComposeIds(c) == Get(ParentBuild(c), "compose_ids", <<>>)

ParentComposeIdsOnly(c) == Range(InheritedComposeIds(c))

MergedComposeIds(c) == Range(c.compose_ids) \cup Range(InheritedComposeIds(c))

MergedRepoUrls(c, urls) == Range(urls) \cup Range(Get(ParentBuild(c), "yum_repourls", <<>>))

Inherit ==
    /\ pc = "run"
    /\ pc' = "read_configs"
    /\ IF allow_inheritance(cfg) /\ ReadsParentBuild(cfg)
       THEN /\ parent_compose_ids' = InheritedComposeIds(cfg)
            /\ all_compose_ids' \in ListsOf(MergedComposeIds(cfg))
            /\ repourls' \in ListsOf(MergedRepoUrls(cfg, repourls))
       ELSE UNCHANGED <<parent_compose_ids, all_compose_ids, repourls>>
    /\ UNCHANGED <<cfg, new_compose_ids, composes_info, parent_signing_intent,
                   compose_config, yum_repourls, result, loop_state, service_state>>

ReadConfigsSkipsWithoutBackend(c, ids) == ~c.odcs_config

(***************************************************************************)
(* run(): read_configs, and the skipped run                                *)
(***************************************************************************)
Call(op, id, arg, ret, outcome) ==
    [op |-> op, id |-> id, arg |-> arg, ret |-> ret, outcome |-> outcome]

ReadConfigsNeverSkips(c, ids) == FALSE

ReadConfigsSkips(c, ids) ==
    \/ ~c.odcs_config
    \/ ~Truthy(c.compose) /\ ids = <<>>

SkippedYumRepourls(yum, platforms, urls) == DictExtendAll(yum, Sorted(platforms), urls)

SkipRun ==
    /\ pc = "read_configs"
    /\ ReadConfigsSkips(cfg, all_compose_ids)
    /\ yum_repourls' = SkippedYumRepourls(yum_repourls, cfg.platforms, repourls)
    /\ result' = make_result(compose_config, composes_info, yum_repourls', repourls,
                             cfg.platforms)
    /\ pc' = "returned"
    /\ UNCHANGED <<cfg, all_compose_ids, new_compose_ids, parent_compose_ids, repourls,
                   composes_info, parent_signing_intent, compose_config,
                   loop_state, service_state>>

ReadConfigs ==
    /\ pc = "read_configs"
    /\ ~ReadConfigsSkips(cfg, all_compose_ids)
    /\ \/ /\ cfg.koji_target # NONE
          /\ calls' = Append(calls, Call("getBuildTarget", 0, cfg.koji_target, 0, "error"))
          /\ pc' = "ExternalError"
          /\ UNCHANGED compose_config
       \/ /\ LET koji_tag == IF cfg.koji_target # NONE THEN BuildTag ELSE NONE
             IN  IF ComposeConfigRaises(cfg.compose, koji_tag)
                 THEN pc' = "ValueError" /\ UNCHANGED compose_config
                 ELSE /\ pc' = "adjust"
                      /\ compose_config' = ComposeConfig(cfg.compose, cfg.pulp_data, koji_tag,
                                                         Sorted(cfg.platforms))
          /\ calls' = IF cfg.koji_target # NONE
                      THEN Append(calls, Call("getBuildTarget", 0, cfg.koji_target, 0, "ok"))
                      ELSE calls
    /\ UNCHANGED <<cfg, all_compose_ids, new_compose_ids, parent_compose_ids, repourls,
                   composes_info, parent_signing_intent, yum_repourls, result,
                   loop_state, next_id, statuses, checks>>

(***************************************************************************)
(* run(): adjust_compose_config                                            *)
(***************************************************************************)
\* the parent's signing intent name, when adjust_signing_intent_from_parent
\* reads one
ParentIntentUnread(c) == NONE

ParentSigningIntentName(c) ==
    IF ReadsParentBuild(c) THEN Get(ParentBuild(c), "signing_intent", NONE) ELSE NONE

CurrentIntentKept(parent, current) == current

\* min(parent, current, key=restrictiveness)
DowngradedIntent(parent, current) == MinByRestrictiveness(<<parent, current>>)

AdjustComposeConfig ==
    /\ pc = "adjust"
    /\ LET name == ParentSigningIntentName(cfg)
           overridden == IF cfg.signing_intent # NONE
                         THEN set_signing_intent(compose_config, cfg.signing_intent)
                         ELSE compose_config
       IN  IF cfg.signing_intent # NONE /\ ~has_signing_intent_name(cfg.signing_intent)
           THEN pc' = "ValueError" /\ UNCHANGED <<compose_config, parent_signing_intent>>
           ELSE IF name = NONE
           THEN /\ pc' = "request"
                /\ compose_config' = overridden
                /\ UNCHANGED parent_signing_intent
           ELSE IF ~has_signing_intent_name(name)
           THEN /\ pc' = "ValueError"
                /\ compose_config' = overridden
                /\ UNCHANGED parent_signing_intent
           ELSE LET parent == get_signing_intent_by_name(name)
                    new == DowngradedIntent(parent, overridden.signing_intent)
                IN  /\ pc' = "request"
                    /\ parent_signing_intent' = parent
                    /\ compose_config' = IF new # overridden.signing_intent
                                         THEN set_signing_intent(overridden, new.name)
                                         ELSE overridden
    /\ UNCHANGED <<cfg, all_compose_ids, new_compose_ids, parent_compose_ids, repourls,
                   composes_info, yum_repourls, result, loop_state, service_state>>

(***************************************************************************)
(* The compose service's answers                                           *)
(***************************************************************************)
RepoFile(id) == "compose-" \o ToString(id) \o ".repo"

\* what wait_for_compose may return for a compose
ComposeInfos(id) ==
    { [id |-> id, sigkeys |-> keys, result_repofile |-> RepoFile(id)] @@ life @@ shape :
        keys \in cfg.service.sigkeys, life \in cfg.service.lifetimes,
        shape \in cfg.service.shapes }

ComposeStatuses == {"wait", "generating", "done"}

(***************************************************************************)
(* run(): resolve_signing_intent, forward_composes, make_result            *)
(***************************************************************************)
\* the intents resolve_signing_intent takes the minimum of
AllSigningIntents(infos, parent) ==
    [i \in 1..Len(infos) |-> get_signing_intent_by_keys(infos[i].sigkeys)]
    \o (IF Truthy(parent) THEN <<parent>> ELSE <<>>)

\* a lookup by keys that finds nothing, or min() of no intent at all
ResolveRaises(infos, parent) ==
    \/ \E i \in 1..Len(infos) : ~has_signing_intent_keys(infos[i].sigkeys)
    \/ infos = <<>> /\ ~Truthy(parent)

RequestedIntentKept(cc, infos, parent) == cc

resolve_signing_intent(cc, infos, parent) ==
    set_signing_intent(cc, MinByRestrictiveness(AllSigningIntents(infos, parent)).name)

\* lines 122-124 of run(), once wait_for_composes has returned
ResolveAndReturn(infos) ==
    IF ResolveRaises(infos, parent_signing_intent)
    THEN /\ pc' = "ValueError"
         /\ UNCHANGED <<compose_config, yum_repourls, result>>
    ELSE /\ compose_config' = resolve_signing_intent(compose_config, infos,
                                                     parent_signing_intent)
         /\ yum_repourls' = forward_composes(yum_repourls, infos, repourls)
         /\ result' = make_result(compose_config', infos, yum_repourls', repourls,
                                  cfg.platforms)
         /\ pc' = "returned"

(***************************************************************************)
(* run(): request_compose_if_needed                                        *)
(***************************************************************************)
FailedCallRetried == UNCHANGED pc

\* an error of start_compose, renew_compose or wait_for_compose other than
\* the timeout: no handler in run() catches it
Propagates == pc' = "ExternalError"

RequestNotNeededWithoutConfig(c) == ~Truthy(c.compose)

\* request_compose_if_needed returns before it validates and requests
RequestNotNeeded(c) == c.compose_ids # <<>> \/ ~Truthy(c.compose)

\* wait_for_composes begins: with no id to wait for it returns at once
BeginWait(ids) ==
    /\ idx' = 1
    /\ ids_before_wait' = ids
    /\ IF ids = <<>>
       THEN ResolveAndReturn(<<>>)
       ELSE pc' = "wait" /\ UNCHANGED <<compose_config, yum_repourls, result>>

RequestComposeIfNeeded ==
    /\ pc = "request"
    /\ IF RequestNotNeeded(cfg)
       THEN BeginWait(all_compose_ids) /\ UNCHANGED requests
       ELSE IF validate_for_request_raises(compose_config)
       THEN /\ pc' = "ValueError"
            /\ UNCHANGED <<requests, idx, ids_before_wait, compose_config, yum_repourls,
                           result>>
       ELSE /\ requests' = render_requests(compose_config)
            /\ idx' = 1
            /\ pc' = "start_compose"
            /\ UNCHANGED <<ids_before_wait, compose_config, yum_repourls, result>>
    /\ UNCHANGED <<cfg, all_compose_ids, new_compose_ids, parent_compose_ids, repourls,
                   composes_info, parent_signing_intent, renewal, service_state>>

StartCompose ==
    /\ pc = "start_compose"
    /\ \/ /\ calls' = Append(calls, Call("start_compose", 0, requests[idx], next_id, "ok"))
          /\ new_compose_ids' = Append(new_compose_ids, next_id)
          /\ next_id' = next_id + 1
          /\ IF idx = Len(requests)
             THEN /\ all_compose_ids' = all_compose_ids \o new_compose_ids'
                  /\ BeginWait(all_compose_ids')
             ELSE /\ idx' = idx + 1
                  /\ UNCHANGED <<all_compose_ids, pc, ids_before_wait, compose_config,
                                 yum_repourls, result>>
       \/ /\ calls' = Append(calls, Call("start_compose", 0, requests[idx], 0, "error"))
          /\ Propagates
          /\ UNCHANGED <<new_compose_ids, next_id, all_compose_ids, idx, ids_before_wait,
                         compose_config, yum_repourls, result>>
    /\ UNCHANGED <<cfg, parent_compose_ids, repourls, composes_info, parent_signing_intent,
                   requests, renewal, statuses, checks>>

(***************************************************************************)
(* run(): wait_for_composes                                                *)
(***************************************************************************)
seconds_left(compose_info, now) == compose_info.time_to_expire - now

needs_renewal_below(compose_info, now, minimum_time_to_expire) ==
    \/ compose_info.state_name = "removed"
    \/ seconds_left(compose_info, now) < minimum_time_to_expire

needs_renewal(compose_info, now, minimum_time_to_expire) ==
    \/ compose_info.state_name = "removed"
    \/ seconds_left(compose_info, now) <= minimum_time_to_expire

RenewalSigkeysFromCatalog(sigkeys) == get_signing_intent_by_keys(sigkeys).keys

\* the keys renew_compose is called with
RenewalSigkeys(sigkeys) ==
    LET updated_signing_intent == get_signing_intent_by_keys(sigkeys)
    IN  IF Range(sigkeys) # Range(updated_signing_intent.keys)
        THEN updated_signing_intent.keys
        ELSE sigkeys

CancelCandidatesAll == all_compose_ids

\* the ids the timeout handler looks at
CancelCandidates == new_compose_ids

ReRaiseForgotten == ResolveAndReturn(composes_info)

\* the timeout handler ends: it re-raises the timeout
ReRaise ==
    /\ pc' = "WaitComposeToFinishTimeout"
    /\ UNCHANGED <<compose_config, yum_repourls, result>>

\* the timeout handler starts its pass over those ids
WaitTimesOut ==
    /\ idx' = 1
    /\ IF CancelCandidates = <<>>
       THEN ReRaise
       ELSE pc' = "cancel" /\ UNCHANGED <<compose_config, yum_repourls, result>>

\* self.all_compose_ids = [item['id'] for item in self.composes_info]
TrackedIdsKept(infos) == all_compose_ids

IdsOf(infos) == [i \in 1..Len(infos) |-> infos[i].id]

\* composes_info.append(compose_info); after the last id the loop ends, the
\* tracked ids are rewritten and the run goes on to its result
Collect(compose_info) ==
    /\ composes_info' = Append(composes_info, compose_info)
    /\ IF idx = Len(all_compose_ids)
       THEN /\ all_compose_ids' = IdsOf(composes_info')
            /\ idx' = 1
            /\ ResolveAndReturn(composes_info')
       ELSE /\ idx' = idx + 1
            /\ pc' = "wait"
            /\ UNCHANGED <<all_compose_ids, compose_config, yum_repourls, result>>

WaitForCompose ==
    /\ pc = "wait"
    /\ LET compose_id == all_compose_ids[idx]
       IN  \/ /\ calls' = Append(calls, Call("wait_for_compose", compose_id, <<>>, 0, "timeout"))
              /\ WaitTimesOut
              /\ UNCHANGED <<all_compose_ids, composes_info, renewal, checks>>
           \/ /\ calls' = Append(calls, Call("wait_for_compose", compose_id, <<>>, 0, "error"))
              /\ Propagates
              /\ UNCHANGED <<all_compose_ids, composes_info, renewal, checks, idx,
                             compose_config, yum_repourls, result>>
           \/ \E compose_info \in ComposeInfos(compose_id) :
                 LET renew == needs_renewal(compose_info, utcnow, cfg.minimum_time_to_expire)
                 IN  /\ calls' = Append(calls, Call("wait_for_compose", compose_id, <<>>, 0, "ok"))
                     /\ checks' = [id |-> compose_id,
                                   state_name |-> compose_info.state_name,
                                   time_to_expire |-> compose_info.time_to_expire,
                                   now |-> utcnow]
                     /\ IF ~renew
                        THEN Collect(compose_info) /\ UNCHANGED renewal
                        ELSE IF ~has_signing_intent_keys(compose_info.sigkeys)
                        THEN /\ pc' = "ValueError"
                             /\ UNCHANGED <<all_compose_ids, composes_info, renewal, idx,
                                            compose_config, yum_repourls, result>>
                        ELSE /\ renewal' = [id |-> compose_id,
                                            observed |-> compose_info.sigkeys,
                                            sigkeys |-> RenewalSigkeys(compose_info.sigkeys)]
                             /\ pc' = "renew_compose"
                             /\ UNCHANGED <<all_compose_ids, composes_info, idx,
                                            compose_config, yum_repourls, result>>
    /\ UNCHANGED <<cfg, new_compose_ids, parent_compose_ids, repourls, parent_signing_intent,
                   requests, ids_before_wait, next_id, statuses>>

RenewComposeUntracked ==
    /\ pc = "renew_compose"
    /\ \/ /\ calls' = Append(calls, Call("renew_compose", renewal.id, renewal.sigkeys,
                                         next_id, "ok"))
          /\ UNCHANGED new_compose_ids
          /\ renewal' = [renewal EXCEPT !.id = next_id]
          /\ next_id' = next_id + 1
          /\ pc' = "wait_renewed"
       \/ /\ calls' = Append(calls, Call("renew_compose", renewal.id, renewal.sigkeys,
                                         0, "error"))
          /\ Propagates
          /\ UNCHANGED <<new_compose_ids, renewal, next_id>>
    /\ UNCHANGED <<cfg, all_compose_ids, parent_compose_ids, repourls, composes_info,
                   parent_signing_intent, compose_config, yum_repourls, result,
                   requests, idx, ids_before_wait, statuses, checks>>
RenewCompose ==
    /\ pc = "renew_compose"
    /\ \/ /\ calls' = Append(calls, Call("renew_compose", renewal.id, renewal.sigkeys,
                                         next_id, "ok"))
          /\ new_compose_ids' = Append(new_compose_ids, next_id)
          /\ renewal' = [renewal EXCEPT !.id = next_id]
          /\ next_id' = next_id + 1
          /\ pc' = "wait_renewed"
       \/ /\ calls' = Append(calls, Call("renew_compose", renewal.id, renewal.sigkeys,
                                         0, "error"))
          /\ Propagates
          /\ UNCHANGED <<new_compose_ids, renewal, next_id>>
    /\ UNCHANGED <<cfg, all_compose_ids, parent_compose_ids, repourls, composes_info,
                   parent_signing_intent, compose_config, yum_repourls, result,
                   requests, idx, ids_before_wait, statuses, checks>>
WaitForRenewedCompose ==
    /\ pc = "wait_renewed"
    /\ \/ /\ calls' = Append(calls, Call("wait_for_compose", renewal.id, <<>>, 0, "timeout"))
          /\ WaitTimesOut
          /\ UNCHANGED <<all_compose_ids, composes_info>>
       \/ /\ calls' = Append(calls, Call("wait_for_compose", renewal.id, <<>>, 0, "error"))
          /\ Propagates
          /\ UNCHANGED <<all_compose_ids, composes_info, idx, compose_config,
                         yum_repourls, result>>
       \/ \E compose_info \in ComposeInfos(renewal.id) :
             /\ calls' = Append(calls, Call("wait_for_compose", renewal.id, <<>>, 0, "ok"))
             /\ Collect(compose_info)
    /\ UNCHANGED <<cfg, new_compose_ids, parent_compose_ids, repourls, parent_signing_intent,
                   requests, renewal, ids_before_wait, next_id, statuses, checks>>

(***************************************************************************)
(* run(): the timeout handler                                              *)
(***************************************************************************)
InProgressGeneratingOnly(status) == status = "generating"

InProgress(status) == status \in {"wait", "generating"}

CancelOrSkip ==
    /\ pc = "cancel"
    /\ LET compose_id == CancelCandidates[idx]
           asked == Call("get_compose_status", compose_id, <<>>, 0, "ok")
       IN  \/ /\ calls' = Append(calls, Call("get_compose_status", compose_id, <<>>, 0, "error"))
              /\ pc' = "ExternalError"
              /\ UNCHANGED <<statuses, idx, compose_config, yum_repourls, result>>
           \/ \E status \in ComposeStatuses :
                 /\ statuses' = [i \in DOMAIN statuses \cup {compose_id} |->
                                    IF i = compose_id THEN status ELSE statuses[i]]
                 /\ \/ /\ calls' = IF InProgress(status)
                                   THEN calls \o <<asked, Call("cancel_compose", compose_id,
                                                               <<>>, 0, "ok")>>
                                   ELSE Append(calls, asked)
                       /\ idx' = idx + 1
                       /\ IF idx = Len(CancelCandidates)
                          THEN ReRaise
                          ELSE pc' = "cancel" /\ UNCHANGED <<compose_config, yum_repourls, result>>
                    \/ /\ InProgress(status)
                       /\ calls' = calls \o <<asked, Call("cancel_compose", compose_id,
                                                          <<>>, 0, "error")>>
                       /\ pc' = "ExternalError"
                       /\ UNCHANGED <<idx, compose_config, yum_repourls, result>>
    /\ UNCHANGED <<cfg, all_compose_ids, new_compose_ids, parent_compose_ids, repourls,
                   composes_info, parent_signing_intent, requests, renewal, ids_before_wait,
                   next_id, checks>>

Next ==
    \/ Construct
    \/ Inherit
    \/ SkipRun
    \/ ReadConfigs
    \/ AdjustComposeConfig
    \/ RequestComposeIfNeeded
    \/ StartCompose
    \/ WaitForCompose
    \/ RenewCompose
    \/ WaitForRenewedCompose
    \/ CancelOrSkip

Spec == Init /\ [][Next]_vars

(***************************************************************************)
(* The requesting half of run(), over every shape of the compose section   *)
(***************************************************************************)
\* modular_koji_tags / module_resolve_tags: True
TagsTrue == [is_true |-> TRUE, tags |-> <<>>]

PackagesParts == {EmptyDict, [packages |-> <<>>], [packages |-> <<"pkg">>]}

ModulesParts ==
    { EmptyDict,
      [modules |-> <<[spec |-> "mod:1", profile |-> "dev"]>>],
      [modules |-> <<[spec |-> "mod:1", profile |-> NONE]>>, module_resolve_tags |-> TagsTrue] }

ModularTagsParts ==
    { EmptyDict,
      [modular_koji_tags |-> TagsTrue],
      [modular_koji_tags |-> [is_true |-> FALSE, tags |-> <<"mtag">>]] }

\* pulp_repos with the content sets wanted at build time only, for a
\* requested architecture and for one no platform asks for
PulpParts ==
    { EmptyDict,
      [pulp_repos |-> TRUE, include_unpublished_pulp_repos |-> TRUE],
      [pulp_repos |-> TRUE,
       build_only_content_sets |-> <<[arch |-> "x86_64", content |-> {"build.only"}]>>],
      [pulp_repos |-> TRUE,
       build_only_content_sets |-> <<[arch |-> "aarch64", content |-> {"build.only"}]>>] }

MultilibParts ==
    { EmptyDict,
      [multilib_arches |-> <<"x86_64", "aarch64">>, multilib_method |-> "devel"] }

IntentParts == {EmptyDict, [signing_intent |-> "beta"]}

RenderComposeData ==
    { pk @@ md @@ mt @@ pl @@ ml @@ si :
        pk \in PackagesParts, md \in ModulesParts, mt \in ModularTagsParts,
        pl \in PulpParts, ml \in MultilibParts, si \in IntentParts }

\* content_sets.yml: the content sets of each architecture
PulpData ==
    { <<>>,
      << [arch |-> "aarch64", content |-> {"cs.aarch64"}],
         [arch |-> "ppc64le", content |-> {"cs.ppc64le"}],
         [arch |-> "x86_64",  content |-> {"cs.x86_64"}] >> }

RenderConfigs ==
    { [ odcs_config       |-> TRUE,
        compose           |-> data,
        inherit           |-> FALSE,
        scratch           |-> FALSE,
        isolated          |-> FALSE,
        base_from_scratch |-> FALSE,
        plugin_result     |-> parent,
        signing_intent    |-> intent,
        compose_ids       |-> <<>>,
        repourls          |-> <<>>,
        koji_target       |-> target,
        platforms         |-> platforms,
        pulp_data         |-> pulp_data,
        minimum_time_to_expire |-> MINIMUM_TIME_TO_EXPIRE,
        service           |-> PlainService ] :
        data \in RenderComposeData,
        parent \in {EmptyDict, [build |-> [nvr |-> "parent-1-1", signing_intent |-> "beta"]]},
        intent \in {NONE, "unsigned"}, target \in {NONE, "target"},
        platforms \in {{"x86_64"}, {"x86_64", "ppc64le"}}, pulp_data \in PulpData }

RenderInit ==
    /\ cfg \in RenderConfigs
    /\ pc = "new"
    /\ all_compose_ids = <<>>
    /\ new_compose_ids = <<>>
    /\ parent_compose_ids = <<>>
    /\ repourls = <<>>
    /\ composes_info = <<>>
    /\ parent_signing_intent = EmptyDict
    /\ compose_config = EmptyDict
    /\ yum_repourls = EmptyDict
    /\ result = NoResult
    /\ requests = <<>>
    /\ idx = 0
    /\ renewal = EmptyDict
    /\ ids_before_wait = <<>>
    /\ next_id = 10
    /\ calls = <<>>
    /\ statuses = EmptyDict
    /\ checks = EmptyDict

\* run() up to the last start_compose
RenderNext ==
    \/ Construct
    \/ Inherit
    \/ ReadConfigs
    \/ AdjustComposeConfig
    \/ RequestComposeIfNeeded
    \/ StartCompose

RenderSpec == RenderInit /\ [][RenderNext]_vars

(***************************************************************************)
(* What the calls show                                                     *)
(***************************************************************************)
CallsOf(op) == {i \in 1..Len(calls) : calls[i].op = op}

CancelledIds == {calls[i].id : i \in CallsOf("cancel_compose")}

\* the ids start_compose and renew_compose returned during this run
ReturnedIds ==
    {calls[i].ret : i \in {j \in CallsOf("start_compose") \cup CallsOf("renew_compose") :
                            calls[j].outcome = "ok"}}

TimedOut == \E i \in 1..Len(calls) : calls[i].outcome = "timeout"

NotSkipped == pc = "returned" /\ Truthy(compose_config)

\* the signing intent the compose section asks for
ConfiguredIntentName ==
    IF "signing_intent" \in DOMAIN cfg.compose
    THEN cfg.compose.signing_intent
    ELSE default_signing_intent

(***************************************************************************)
(* C1: when the wait times out and the handler has gone over the           *)
(* newly-created ids, every one of them had its status asked and           *)
(* cancel_compose was called on exactly those whose reported status was    *)
(* 'wait' or 'generating'; during the pass no other id is canceled.        *)
(***************************************************************************)
C1_CancelExactlyInProgress ==
    LET in_progress == {id \in DOMAIN statuses : statuses[id] \in {"wait", "generating"}}
    IN  /\ CancelledIds \subseteq in_progress
        /\ pc = "WaitComposeToFinishTimeout" =>
              /\ DOMAIN statuses = Range(new_compose_ids)
              /\ DOMAIN statuses = ReturnedIds
              /\ CancelledIds = in_progress

C1_Witness ==
    /\ pc = "WaitComposeToFinishTimeout"
    /\ \E a, b, c \in Range(new_compose_ids) :
          /\ statuses[a] = "wait" /\ statuses[b] = "generating" /\ statuses[c] = "done"
          /\ a \in CancelledIds /\ b \in CancelledIds /\ c \notin CancelledIds

(***************************************************************************)
(* C2: cancel_compose is never called on a compose id the caller supplied  *)
(* or the parent build handed down, only on ids that start_compose or      *)
(* renew_compose returned during this run.                                 *)
(***************************************************************************)
C2_NeverCancelForeignIds ==
    /\ CancelledIds \cap (Range(cfg.compose_ids) \cup Range(parent_compose_ids)) = {}
    /\ CancelledIds \subseteq ReturnedIds

C2_Witness ==
    /\ pc = "WaitComposeToFinishTimeout"
    /\ CancelledIds # {}
    /\ parent_compose_ids # <<>>
    /\ Range(parent_compose_ids) \subseteq Range(ids_before_wait)
    /\ \E i \in CallsOf("start_compose") : calls[i].ret \in CancelledIds
    /\ \E i \in CallsOf("renew_compose") : calls[i].ret \in CancelledIds

(***************************************************************************)
(* C3: once a wait has timed out the run returns no result: it is in the   *)
(* cancellation pass or has raised, and neither the signing intent         *)
(* resolution nor the aggregation nor make_result has run.                 *)
(***************************************************************************)
C3_NoResultAfterTimeout ==
    TimedOut =>
        /\ pc \in {"cancel", "WaitComposeToFinishTimeout", "ExternalError"}
        /\ result = NoResult
        /\ yum_repourls = EmptyDict
        /\ all_compose_ids = ids_before_wait

C3_Witness ==
    /\ TimedOut
    /\ pc = "WaitComposeToFinishTimeout"
    /\ CancelledIds # {}
    /\ composes_info # <<>>

(***************************************************************************)
(* C4: when the caller gives explicit compose ids, start_compose is never  *)
(* called, whatever the compose configuration is; and when nothing is      *)
(* inherited either, wait_for_compose is called only on the explicit ids   *)
(* and on ids that renewing them returned.                                 *)
(***************************************************************************)
C4_ExplicitIdsNeverStart ==
    cfg.compose_ids # <<>> =>
        /\ CallsOf("start_compose") = {}
        /\ pc # "start_compose"
        /\ parent_compose_ids = <<>> =>
              \A i \in CallsOf("wait_for_compose") :
                  \/ calls[i].id \in Range(cfg.compose_ids)
                  \/ \E j \in CallsOf("renew_compose") :
                        /\ j < i
                        /\ calls[j].id \in Range(cfg.compose_ids)
                        /\ calls[j].ret = calls[i].id

C4_Witness ==
    /\ NotSkipped
    /\ Len(cfg.compose_ids) = 2
    /\ parent_compose_ids = <<>>
    /\ "packages" \in DOMAIN cfg.compose
    /\ CallsOf("renew_compose") # {}
    /\ \A id \in Range(cfg.compose_ids) :
          \E i \in CallsOf("wait_for_compose") : calls[i].id = id

(***************************************************************************)
(* C5: with no compose backend configured, or with no compose section and  *)
(* no explicit compose ids, run() is skipped without error: the compose    *)
(* service is never called and the result has no composes, no signing      *)
(* intent, signing_intent_overridden false and, for every platform, a      *)
(* yum_repourls list equal to the plugin's repo URLs.                      *)
(***************************************************************************)
C5_SkippedRun ==
    LET no_backend == ~cfg.odcs_config
        nothing_to_resolve == /\ ~Truthy(cfg.compose)
                              /\ ~cfg.inherit
                              /\ cfg.compose_ids = <<>>
    IN  (pc # "new" /\ ~(cfg.signing_intent # NONE /\ cfg.compose_ids # <<>>)
           /\ (no_backend \/ nothing_to_resolve)) =>
            /\ calls = <<>>
            /\ pc \in {"run", "read_configs", "returned"}
            /\ pc = "returned" =>
                  /\ result.composes = <<>>
                  /\ result.signing_intent = NONE
                  /\ result.signing_intent_overridden = FALSE
                  /\ DOMAIN result.yum_repourls = cfg.platforms
                  /\ \A p \in cfg.platforms : result.yum_repourls[p] = repourls
                  /\ nothing_to_resolve =>
                        \A p \in cfg.platforms : result.yum_repourls[p] = cfg.repourls

C5_Witness ==
    /\ pc = "returned"
    /\ cfg.odcs_config
    /\ ~Truthy(cfg.compose) /\ ~cfg.inherit /\ cfg.compose_ids = <<>>
    /\ cfg.repourls # <<>>
    /\ \A p \in cfg.platforms : result.yum_repourls[p] = cfg.repourls
    /\ result.signing_intent = NONE

(***************************************************************************)
(* C6: the compose info the first wait on a tracked id returns triggers    *)
(* renewal if and only if its state is 'removed' or time_to_expire minus   *)
(* now is at most minimum_time_to_expire: with exactly that many seconds   *)
(* left the compose is renewed, with one more it is not.                   *)
(***************************************************************************)
C6_RenewalIffExpiring ==
    Truthy(checks) =>
        LET expiring == \/ checks.state_name = "removed"
                        \/ checks.time_to_expire - checks.now <= cfg.minimum_time_to_expire
            waits == {i \in CallsOf("wait_for_compose") :
                         calls[i].id = checks.id /\ calls[i].outcome = "ok"}
            k == CHOOSE i \in waits : \A j \in waits : j <= i
            last == k = Len(calls)
        IN  /\ waits # {}
            /\ expiring =>
                  \/ last /\ pc \in {"renew_compose", "ValueError"}
                  \/ ~last /\ calls[k + 1].op = "renew_compose" /\ calls[k + 1].id = checks.id
            /\ ~expiring =>
                  /\ pc # "renew_compose"
                  /\ ~last => calls[k + 1].op # "renew_compose"

C6_Witness ==
    /\ Truthy(checks)
    /\ checks.state_name = "done"
    /\ checks.time_to_expire - checks.now = cfg.minimum_time_to_expire
    /\ \E i \in CallsOf("renew_compose") : calls[i].id = checks.id /\ calls[i].outcome = "ok"
    /\ pc = "returned"

(***************************************************************************)
(* C7: once the wait phase has completed, all_compose_ids is the sequence  *)
(* of the ids of composes_info: one entry per id tracked before the wait,  *)
(* in the same order, a renewed compose standing under the id              *)
(* renew_compose returned and its old id no longer tracked.                *)
(***************************************************************************)
WaitCompleted ==
    \/ NotSkipped
    \/ pc = "ValueError" /\ composes_info # <<>> /\ Len(composes_info) = Len(ids_before_wait)

C7_TrackedIdsRewritten ==
    WaitCompleted =>
        /\ Len(all_compose_ids) = Len(composes_info)
        /\ Len(all_compose_ids) = Len(ids_before_wait)
        /\ \A i \in 1..Len(all_compose_ids) :
              LET old == ids_before_wait[i]
                  renewals == {j \in CallsOf("renew_compose") :
                                  calls[j].id = old /\ calls[j].outcome = "ok"}
              IN  /\ all_compose_ids[i] = composes_info[i].id
                  /\ IF renewals = {}
                     THEN all_compose_ids[i] = old
                     ELSE /\ \E j \in renewals : all_compose_ids[i] = calls[j].ret
                          /\ old \notin Range(all_compose_ids)

C7_Witness ==
    /\ NotSkipped
    /\ Len(ids_before_wait) = 2
    /\ all_compose_ids[1] = ids_before_wait[1]
    /\ all_compose_ids[2] # ids_before_wait[2]
    /\ ids_before_wait[2] \notin Range(all_compose_ids)

(***************************************************************************)
(* C8: the signing intent of a non-skipped result is the intent of least   *)
(* restrictiveness among the catalog intents the keys of the final         *)
(* composes select and the parent's intent when one was carried forward;   *)
(* the requested intent plays no part.                                     *)
(***************************************************************************)
ParentRecordsIntent ==
    /\ ~cfg.base_from_scratch
    /\ "build" \in DOMAIN cfg.plugin_result
    /\ "signing_intent" \in DOMAIN cfg.plugin_result.build

RecordedParentIntent ==
    CHOOSE e \in Range(signing_intents) : e.name = cfg.plugin_result.build.signing_intent

C8_LeastRestrictiveOfUsed ==
    NotSkipped =>
        LET used == {get_signing_intent_by_keys(result.composes[i].sigkeys) :
                        i \in 1..Len(result.composes)}
                    \cup (IF ParentRecordsIntent THEN {RecordedParentIntent} ELSE {})
        IN  \E e \in used :
               /\ e.name = result.signing_intent
               /\ \A f \in used : e.restrictiveness <= f.restrictiveness

C8_Witness ==
    /\ NotSkipped
    /\ ConfiguredIntentName = "unsigned"
    /\ ParentRecordsIntent
    /\ RecordedParentIntent.name = "beta"
    /\ Len(result.composes) = 2
    /\ result.composes[1].sigkeys = <<"R">>
    /\ result.composes[2].sigkeys = <<"B">>
    /\ result.signing_intent = "beta"

(***************************************************************************)
(* C9: when the parent build records a signing intent and the image is     *)
(* not based on scratch, the current signing intent after the parent       *)
(* adjustment and the signing intent of a non-skipped result are no more   *)
(* restrictive than the parent's intent.                                   *)
(***************************************************************************)
AfterAdjust ==
    pc \in {"request", "start_compose", "wait", "renew_compose", "wait_renewed", "cancel",
            "WaitComposeToFinishTimeout"} \/ NotSkipped

C9_NeverAboveParent ==
    (ParentRecordsIntent /\ AfterAdjust) =>
        /\ compose_config.signing_intent.restrictiveness <= RecordedParentIntent.restrictiveness
        /\ NotSkipped =>
              \E e \in Range(signing_intents) :
                  /\ e.name = result.signing_intent
                  /\ e.restrictiveness <= RecordedParentIntent.restrictiveness

C9_Witness ==
    /\ NotSkipped
    /\ ParentRecordsIntent
    /\ RecordedParentIntent.name = "unsigned"
    /\ ~cfg.inherit
    /\ cfg.compose_ids # <<>>
    /\ \E i \in 1..Len(result.composes) : result.composes[i].sigkeys = <<"R">>
    /\ result.signing_intent = "unsigned"

(***************************************************************************)
(* C10: in a non-skipped result signing_intent_overridden is true if and   *)
(* only if the final intent's name differs from the name recorded when the *)
(* ComposeConfig was constructed (the configured signing_intent, or the    *)
(* catalog default); no later set_signing_intent changes the recorded name.*)
(***************************************************************************)
C10_OverriddenIffNameDiffers ==
    /\ Truthy(compose_config) =>
          compose_config.original_signing_intent_name = ConfiguredIntentName
    /\ NotSkipped =>
          (result.signing_intent_overridden <=> result.signing_intent # ConfiguredIntentName)

C10_Witness ==
    /\ NotSkipped
    /\ "signing_intent" \in DOMAIN cfg.compose
    /\ cfg.signing_intent # NONE
    /\ cfg.signing_intent # ConfiguredIntentName
    /\ result.signing_intent = ConfiguredIntentName
    /\ ~result.signing_intent_overridden

(***************************************************************************)
(* C11: a signing intent together with explicit compose ids is rejected    *)
(* with a ValueError at construction, before any inheritance step or       *)
(* external call; one of the two alone, or neither, is accepted.           *)
(***************************************************************************)
BothGiven == cfg.signing_intent # NONE /\ cfg.compose_ids # <<>>

C11_BothRejectedAtConstruction ==
    /\ [](BothGiven =>
            /\ pc \in {"new", "ValueError"}
            /\ calls = <<>>
            /\ all_compose_ids = <<>> /\ parent_compose_ids = <<>> /\ repourls = <<>>)
    /\ [][pc = "new" => (IF BothGiven THEN pc' = "ValueError" ELSE pc' = "run")]_vars

C11_Witness ==
    /\ BothGiven
    /\ pc = "ValueError"
    /\ cfg.inherit
    /\ "build" \in DOMAIN cfg.plugin_result
    /\ "compose_ids" \in DOMAIN cfg.plugin_result.build

(***************************************************************************)
(* C12: in every non-skipped result every raw repo URL, caller-supplied or *)
(* inherited, is in the yum_repourls list of every requested architecture. *)
(***************************************************************************)
C12_RawUrlsInEveryArch ==
    NotSkipped =>
        \A p \in cfg.platforms : \A url \in Range(repourls) :
            /\ p \in DOMAIN result.yum_repourls
            /\ url \in Range(result.yum_repourls[p])

(***************************************************************************)
(* C13: in every non-skipped result the repository file of a final compose *)
(* is in the yum_repourls list of every requested architecture the compose *)
(* declares in its arches, and of every requested architecture when it     *)
(* declares no arches.                                                     *)
(***************************************************************************)
AppliesTo(info, platform) ==
    "arches" \notin DOMAIN info \/ platform \in Range(info.arches)

C13_RepofileInApplicableArches ==
    NotSkipped =>
        \A p \in cfg.platforms : \A i \in 1..Len(result.composes) :
            AppliesTo(result.composes[i], p) =>
                /\ p \in DOMAIN result.yum_repourls
                /\ result.composes[i].result_repofile \in Range(result.yum_repourls[p])

(***************************************************************************)
(* C14: for every requested architecture include_koji_repo is false when   *)
(* a raw repo URL was supplied; with no raw URL it is false exactly when a *)
(* final compose applicable to the architecture (declaring it, or          *)
(* declaring no arches) is not a module compose, and true otherwise.       *)
(***************************************************************************)
C14_IncludeKojiRepo ==
    pc = "returned" =>
        /\ DOMAIN result.include_koji_repo = cfg.platforms
        /\ \A p \in cfg.platforms :
              LET non_module == {i \in 1..Len(result.composes) :
                                    /\ AppliesTo(result.composes[i], p)
                                    /\ result.composes[i].source_type # 2}
              IN  result.include_koji_repo[p] = (repourls = <<>> /\ non_module = {})

C14_Witness ==
    /\ NotSkipped
    /\ repourls = <<>>
    /\ Len(result.composes) = 2
    /\ result.composes[1].source_type = 2 /\ AppliesTo(result.composes[1], "x86_64")
    /\ result.composes[2].source_type = 1 /\ ~AppliesTo(result.composes[2], "x86_64")
    /\ result.include_koji_repo["x86_64"]
    /\ ~result.include_koji_repo["ppc64le"]

(***************************************************************************)
(* C15: validate_for_request fails when none of packages, modules, pulp    *)
(* content and modular tags is configured, and when packages are requested *)
(* without a koji tag; in the run either failure comes before the first    *)
(* start_compose call, so no compose is started.                           *)
(***************************************************************************)
\* the run gets to validate_for_request: no explicit ids and a compose section
Validates == cfg.compose_ids = <<>> /\ Truthy(cfg.compose)

NothingToCompose ==
    /\ "packages" \notin DOMAIN cfg.compose
    /\ Get(cfg.compose, "modules", <<>>) = <<>>
    /\ ~Get(cfg.compose, "pulp_repos", FALSE)
    /\ "modular_koji_tags" \notin DOMAIN cfg.compose

PackagesWithoutTag == "packages" \in DOMAIN cfg.compose /\ cfg.koji_target = NONE

C15_ValidationFailsBeforeStart ==
    (Validates /\ (NothingToCompose \/ PackagesWithoutTag)) =>
        /\ CallsOf("start_compose") = {}
        /\ pc \in {"new", "run", "read_configs", "adjust", "request", "ValueError",
                   "ExternalError"}

(***************************************************************************)
(* C16: the parent's compose ids and repo URLs are merged into the run's   *)
(* starting sets only if the configuration requests inheritance and the    *)
(* build is neither scratch nor isolated; otherwise the starting tracked   *)
(* ids are exactly the explicit compose ids and the repo URLs exactly the  *)
(* caller's.                                                               *)
(***************************************************************************)
InheritanceAllowed == cfg.inherit /\ ~cfg.scratch /\ ~cfg.isolated

C16_MergeOnlyWhenAllowed ==
    /\ parent_compose_ids # <<>> => InheritanceAllowed
    /\ (~InheritanceAllowed /\ pc \notin {"new", "ValueError"}) => repourls = cfg.repourls
    /\ pc = "read_configs" =>
          /\ ~InheritanceAllowed =>
                all_compose_ids = cfg.compose_ids /\ repourls = cfg.repourls
          /\ (Range(all_compose_ids) # Range(cfg.compose_ids)
                \/ Range(repourls) # Range(cfg.repourls)) => InheritanceAllowed

C16_Witness ==
    /\ pc = "read_configs"
    /\ cfg.inherit /\ cfg.scratch
    /\ ~cfg.base_from_scratch
    /\ "build" \in DOMAIN cfg.plugin_result
    /\ {"compose_ids", "yum_repourls"} \subseteq DOMAIN cfg.plugin_result.build
    /\ cfg.repourls # <<>>
    /\ all_compose_ids = cfg.compose_ids /\ repourls = cfg.repourls

(***************************************************************************)
(* C17: when the image is based on scratch nothing is inherited from the   *)
(* parent build record, even with one present and inheritance requested:   *)
(* no parent compose id is tracked or waited on, no parent repo URL is     *)
(* added, the signing intent is not downgraded to the parent's and the     *)
(* parent's intent is not part of the final minimum.                       *)
(***************************************************************************)
\* the intent asked for: the signing_intent parameter, else the configured one
RequestedIntentName ==
    IF cfg.signing_intent # NONE THEN cfg.signing_intent ELSE ConfiguredIntentName

C17_ScratchBaseInheritsNothing ==
    cfg.base_from_scratch =>
        /\ parent_compose_ids = <<>>
        /\ parent_signing_intent = EmptyDict
        /\ pc \notin {"new", "ValueError"} => repourls = cfg.repourls
        /\ pc = "read_configs" => all_compose_ids = cfg.compose_ids
        /\ \A i \in CallsOf("wait_for_compose") :
              calls[i].id \in Range(cfg.compose_ids) \cup ReturnedIds
        /\ AfterAdjust /\ ~NotSkipped => compose_config.signing_intent.name = RequestedIntentName
        /\ NotSkipped =>
              /\ result.composes # <<>>
              /\ \E i \in 1..Len(result.composes) :
                    /\ get_signing_intent_by_keys(result.composes[i].sigkeys).name
                          = result.signing_intent
                    /\ \A j \in 1..Len(result.composes) :
                          get_signing_intent_by_keys(result.composes[j].sigkeys).restrictiveness
                             >= get_signing_intent_by_keys(result.composes[i].sigkeys).restrictiveness

C17_Witness ==
    /\ NotSkipped
    /\ cfg.base_from_scratch
    /\ InheritanceAllowed
    /\ cfg.plugin_result = RichParent
    /\ cfg.repourls # <<>>
    /\ result.signing_intent = "release"

(***************************************************************************)
(* C18: for a tracked id whose first wait result requires renewal the      *)
(* calls are, in order, wait_for_compose(old id), renew_compose(old id,    *)
(* keys), wait_for_compose(new id); the new id is in new_compose_ids       *)
(* before the second wait begins, so a timeout during it has the new id    *)
(* looked at for cancellation; the renewed compose's info is accepted with *)
(* no second renewal check: at most one renew_compose call per tracked id. *)
(***************************************************************************)
WaitOrRenew == CallsOf("wait_for_compose") \cup CallsOf("renew_compose")

C18_RenewalProtocol ==
    \A j \in CallsOf("renew_compose") :
        LET old == calls[j].id
            new == calls[j].ret
        IN  /\ j > 1
            /\ calls[j - 1].op = "wait_for_compose"
            /\ calls[j - 1].id = old /\ calls[j - 1].outcome = "ok"
            /\ {i \in WaitOrRenew : calls[i].id = old} = {j - 1, j}
            /\ old \in Range(ids_before_wait)
            /\ calls[j].outcome = "ok" =>
                  /\ new \notin Range(ids_before_wait)
                  /\ new \in Range(new_compose_ids)
                  /\ j = Len(calls) => pc = "wait_renewed"
                  /\ j < Len(calls) =>
                        /\ calls[j + 1].op = "wait_for_compose" /\ calls[j + 1].id = new
                        /\ {i \in WaitOrRenew : calls[i].id = new} = {j + 1}
                        /\ (calls[j + 1].outcome = "timeout"
                              /\ pc = "WaitComposeToFinishTimeout") => new \in DOMAIN statuses
                        /\ (calls[j + 1].outcome = "ok" /\ pc \notin {"ValueError"}) =>
                              \E k \in 1..Len(composes_info) : composes_info[k].id = new

C18_Witness ==
    /\ NotSkipped
    /\ Cardinality(CallsOf("renew_compose")) = 2
    /\ \E k \in 1..Len(composes_info) :
          /\ composes_info[k].state_name = "removed"
          /\ \E j \in CallsOf("renew_compose") : calls[j].ret = composes_info[k].id

(***************************************************************************)
(* C19: renew_compose is called with the compose's own observed key list   *)
(* when the set of those keys equals the key set of the catalog intent     *)
(* the keys select, and otherwise with that catalog intent's key list.     *)
(***************************************************************************)
C19_RenewalKeys ==
    \A j \in CallsOf("renew_compose") :
        (calls[j].id = renewal.id \/ (calls[j].outcome = "ok" /\ calls[j].ret = renewal.id)) =>
            LET observed == renewal.observed
                hits == {i \in 1..Len(signing_intents) :
                            LET keys == {signing_intents[i].keys[k] :
                                            k \in 1..Len(signing_intents[i].keys)}
                                obs == {observed[k] : k \in 1..Len(observed)}
                            IN  (obs # {} /\ obs \subseteq keys) \/ obs = keys}
                intent == signing_intents[CHOOSE i \in hits : \A h \in hits : h <= i]
                same == {observed[k] : k \in 1..Len(observed)}
                           = {intent.keys[k] : k \in 1..Len(intent.keys)}
            IN  calls[j].arg = IF same THEN observed ELSE intent.keys

C19_Witness ==
    /\ pc = "returned"
    /\ \E j \in CallsOf("renew_compose") :
          /\ calls[j].ret = renewal.id
          /\ renewal.observed = <<"B", "R">>
          /\ calls[j].arg = <<"B", "R">>

(***************************************************************************)
(* C20: when start_compose, renew_compose or wait_for_compose fails with   *)
(* an error other than the wait timeout, the run ends with that error:     *)
(* the call is not retried, no cancel_compose call is made, no later       *)
(* external call is issued and no result is returned.                      *)
(***************************************************************************)
C20_ErrorsPropagate ==
    \A i \in 1..Len(calls) :
        (calls[i].outcome = "error"
           /\ calls[i].op \in {"start_compose", "renew_compose", "wait_for_compose"}) =>
            /\ i = Len(calls)
            /\ pc = "ExternalError"
            /\ CallsOf("cancel_compose") = {}
            /\ CallsOf("get_compose_status") = {}
            /\ result = NoResult

C20_Witness ==
    /\ pc = "ExternalError"
    /\ calls[Len(calls)].op = "wait_for_compose"
    /\ calls[Len(calls)].outcome = "error"
    /\ Len(new_compose_ids) = 2
    /\ CallsOf("start_compose") # {} /\ CallsOf("renew_compose") # {}

(***************************************************************************)
(* C21: merging the parent's state is a set union: after                   *)
(* adjust_for_inherit the tracked ids are the union of the explicit and    *)
(* the parent's compose ids and the repo URLs the union of the caller's    *)
(* and the parent's URLs, each value once; merging the same parent ids and *)
(* URLs again yields the same sets.                                        *)
(***************************************************************************)
\* adjust_for_inherit runs and gets past its early returns
Merges ==
    /\ InheritanceAllowed
    /\ ~cfg.base_from_scratch
    /\ "build" \in DOMAIN cfg.plugin_result
    /\ DOMAIN cfg.plugin_result.build # {}

C21_MergeIsSetUnion ==
    (Merges /\ pc = "read_configs") =>
        LET parent == cfg.plugin_result.build
            parent_ids == IF "compose_ids" \in DOMAIN parent
                          THEN {parent.compose_ids[i] : i \in 1..Len(parent.compose_ids)}
                          ELSE {}
            parent_urls == IF "yum_repourls" \in DOMAIN parent
                           THEN {parent.yum_repourls[i] : i \in 1..Len(parent.yum_repourls)}
                           ELSE {}
        IN  /\ Range(all_compose_ids) = Range(cfg.compose_ids) \cup parent_ids
            /\ Len(all_compose_ids) = Cardinality(Range(all_compose_ids))
            /\ Range(repourls) = Range(cfg.repourls) \cup parent_urls
            /\ Len(repourls) = Cardinality(Range(repourls))
            /\ MergedComposeIds(cfg) = Range(all_compose_ids)
            /\ MergedRepoUrls(cfg, repourls) = Range(repourls)

C21_Witness ==
    /\ Merges
    /\ pc = "read_configs"
    /\ cfg.compose_ids = <<1>>
    /\ parent_compose_ids = <<1, 3>>
    /\ Len(all_compose_ids) = 2

(***************************************************************************)
(* C22: after ComposeConfig construction the pulp mapping holds only       *)
(* requested architectures (so pulp requests go out for requested          *)
(* architectures only), and for each of them the available content sets    *)
(* of that architecture united with its build_only_content_sets.           *)
(***************************************************************************)
\* pulp_data[arch], the content sets content_sets.yml has for an architecture
AvailableContentSets(c, arch) ==
    UNION {c.pulp_data[i].content : i \in PulpIndex(c.pulp_data, arch)}

\* data['build_only_content_sets'][arch]
BuildOnlyContentSets(c, arch) ==
    LET build_only == Get(c.compose, "build_only_content_sets", <<>>)
    IN  UNION {build_only[i].content : i \in PulpIndex(build_only, arch)}

C22_PulpOnlyRequestedArches ==
    Truthy(compose_config) =>
        /\ \A i \in 1..Len(compose_config.pulp) :
              /\ compose_config.pulp[i].arch \in cfg.platforms
              /\ compose_config.pulp[i].content =
                    AvailableContentSets(cfg, compose_config.pulp[i].arch)
                    \cup BuildOnlyContentSets(cfg, compose_config.pulp[i].arch)
        /\ \A i \in 1..Len(requests) :
              requests[i].source_type = "pulp" => Range(requests[i].arches) \subseteq cfg.platforms

(***************************************************************************)
(* C23: render_requests emits the packages-by-tag request if packages are  *)
(* configured, then the modules request, then the modular-koji-tags        *)
(* request, then one pulp request per architecture with pulp content,      *)
(* each for exactly that architecture and with a multilib annotation only  *)
(* if the architecture is a multilib one; start_compose is called once per *)
(* rendered request, in that order.                                        *)
(***************************************************************************)
\* which render_*_request made a request
RequestKind(r) ==
    IF r.source_type = "pulp" THEN "pulp"
    ELSE IF r.source_type = "module" THEN "modules"
    ELSE IF "packages" \in DOMAIN r THEN "packages"
    ELSE "modular_tags"

\* the requests start_compose was called with, in call order
StartedRequests ==
    LET started == SelectSeq(calls, LAMBDA c : c.op = "start_compose")
    IN  [i \in 1..Len(started) |-> started[i].arg]

C23_RequestOrder ==
    requests # <<>> =>
        LET cc == compose_config
            tagged == Len(requests) - Len(cc.pulp)
            expected ==
                (IF "packages" \in DOMAIN cfg.compose THEN <<"packages">> ELSE <<>>)
                \o (IF Get(cfg.compose, "modules", <<>>) # <<>> THEN <<"modules">> ELSE <<>>)
                \o (IF "modular_koji_tags" \in DOMAIN cfg.compose
                    THEN <<"modular_tags">> ELSE <<>>)
                \o [i \in 1..Len(cc.pulp) |-> "pulp"]
        IN  /\ [i \in 1..Len(requests) |-> RequestKind(requests[i])] = expected
            /\ \A i \in 1..Len(cc.pulp) :
                  /\ requests[tagged + i].arches = <<cc.pulp[i].arch>>
                  /\ "multilib_arches" \in DOMAIN requests[tagged + i] =>
                        /\ cc.pulp[i].arch \in Range(cfg.compose.multilib_arches)
                        /\ cc.pulp[i].arch \in cfg.platforms
                  /\ \A j \in 1..Len(cc.pulp) : cc.pulp[j].arch = cc.pulp[i].arch => j = i
            /\ Len(StartedRequests) <= Len(requests)
            /\ StartedRequests = SubSeq(requests, 1, Len(StartedRequests))
            /\ pc = "wait" => StartedRequests = requests

C23_Witness ==
    /\ pc = "wait"
    /\ Len(requests) = 5
    /\ Len(StartedRequests) = 5
    /\ "multilib_arches" \in DOMAIN requests[5]
    /\ "multilib_arches" \notin DOMAIN requests[4]

(***************************************************************************)
(* C24: every request rendered with a tag or module source carries as      *)
(* sigkeys the key list of the ComposeConfig's signing intent at rendering *)
(* time, and every pulp request carries an empty key list whatever the     *)
(* signing intent is.                                                      *)
(***************************************************************************)
C24_SigkeysOfRequests ==
    \A i \in 1..Len(requests) :
        IF requests[i].source_type = "pulp"
        THEN requests[i].sigkeys = <<>>
        ELSE /\ requests[i].source_type \in {"tag", "module"}
             /\ requests[i].sigkeys = compose_config.signing_intent.keys

C24_Witness ==
    /\ pc = "wait"
    /\ compose_config.signing_intent.name = "beta"
    /\ \E i \in 1..Len(requests) : requests[i].source_type = "pulp"
    /\ \E i \in 1..Len(requests) :
          requests[i].source_type = "tag" /\ requests[i].sigkeys = <<"R", "B">>
    /\ \E i \in 1..Len(requests) :
          requests[i].source_type = "module" /\ requests[i].sigkeys = <<"R", "B">>

(***************************************************************************)
(* C25: after forward_composes, whatever the composes and the raw repo     *)
(* URLs are, 'noarch' is not a key of the final yum_repourls mapping.      *)
(***************************************************************************)
C25_NoNoarchKey ==
    pc = "returned" =>
        /\ "noarch" \notin DOMAIN yum_repourls
        /\ "noarch" \notin DOMAIN result.yum_repourls

C25_Witness ==
    /\ NotSkipped
    /\ \E i \in 1..Len(composes_info) : "arches" \notin DOMAIN composes_info[i]
    /\ \E i \in 1..Len(composes_info) : "arches" \in DOMAIN composes_info[i]
    /\ \E a \in DOMAIN result.yum_repourls : Len(result.yum_repourls[a]) = 2

(***************************************************************************)
(* C26: a run that reaches the signing-intent resolution (not skipped, no  *)
(* validation failure, no timeout) has at least one compose info, so the   *)
(* minimum is taken over at least one compose: a run that is not skipped   *)
(* has explicit ids, inherited ids, or a validated configuration that      *)
(* renders at least one request.                                           *)
(***************************************************************************)
C26_ResolutionHasComposes ==
    /\ NotSkipped => composes_info # <<>> /\ result.composes # <<>>
    /\ (pc = "request" /\ RequestNotNeeded(cfg)) => all_compose_ids # <<>>
    /\ pc = "start_compose" => requests # <<>>
    /\ pc = "wait" => all_compose_ids # <<>>

\* a run with no id of its own or its parent's that returns the one compose
\* it requested
C26_Witness ==
    /\ NotSkipped
    /\ cfg.compose_ids = <<>>
    /\ parent_compose_ids = <<>>
    /\ Len(requests) = 1
    /\ Len(composes_info) = 1

(***************************************************************************)
(* C27: the signing-intent override and the parent downgrade are applied   *)
(* before any compose is requested: every tag or module request given to   *)
(* start_compose carries the keys of the least restrictive of the          *)
(* requested intent (the signing_intent parameter, else the configured     *)
(* one, else the default) and the parent's intent when one is read, never  *)
(* the keys of an intent more restrictive than the parent's.               *)
(***************************************************************************)
\* the catalog entry of a name
IntentNamed(name) == CHOOSE e \in Range(signing_intents) : e.name = name

C27_RequestsCarryAdjustedKeys ==
    /\ pc \in {"new", "run", "read_configs", "adjust", "request"} =>
          CallsOf("start_compose") = {}
    /\ \A i \in CallsOf("start_compose") :
          calls[i].arg.source_type \in {"tag", "module"} =>
              LET requested == IntentNamed(RequestedIntentName)
                  expected == IF /\ ParentRecordsIntent
                                 /\ RecordedParentIntent.restrictiveness
                                        < requested.restrictiveness
                              THEN RecordedParentIntent
                              ELSE requested
              IN  /\ calls[i].arg.sigkeys = expected.keys
                  /\ ParentRecordsIntent =>
                        expected.restrictiveness <= RecordedParentIntent.restrictiveness

\* a parameter asking for release over a configured beta, under an unsigned
\* parent: the request goes out with no keys
C27_Witness ==
    /\ cfg.signing_intent = "release"
    /\ ConfiguredIntentName = "beta"
    /\ ParentRecordsIntent
    /\ RecordedParentIntent.name = "unsigned"
    /\ \E i \in CallsOf("start_compose") :
          calls[i].outcome = "ok" /\ calls[i].arg.sigkeys = <<>>

(***************************************************************************)
(* C28: every request of source type 'tag' that render_requests emits      *)
(* after validate_for_request passed (the packages-by-tag and the          *)
(* modular-koji-tags request) has a koji tag as its source: no tag request *)
(* reaches start_compose with an absent source, also when the packages     *)
(* list is configured but empty or the modular tags are an explicit list.  *)
(***************************************************************************)
C28_TagRequestsHaveSource ==
    /\ \A i \in 1..Len(requests) :
          requests[i].source_type = "tag" => requests[i].source # NONE
    /\ \A i \in CallsOf("start_compose") :
          calls[i].arg.source_type = "tag" => calls[i].arg.source # NONE

====
